---- MODULE Spec2Model ----
(***************************************************************************)
(* Model of the indicator engine of crypto-technical-analysis              *)
(* (technical_analysis.py).  A TechnicalAnalysis object holds a pandas     *)
(* DataFrame of candles; every calculate_* method reads it and returns     *)
(* one or more derived series.  The constructor normalizes the candles it  *)
(* is given (_process_dataframe), _analyze_single_asset builds the report  *)
(* of one object and analyze_all_assets runs it over a batch of            *)
(* instruments and saves the result.  Two loops outside the library are   *)
(* modelled beside it: main of crypto_mcp_server.py, the JSON-RPC server   *)
(* over stdin and stdout, and the paging loop of get_long_short_ratio      *)
(* (crypto_data.py).                                                       *)
(*                                                                         *)
(* Numbers.  A pandas float is modelled as a pair <<n, d>>: the exact      *)
(* rational n/d (d > 0, lowest terms) when d # 0, and the IEEE specials    *)
(* NaN = <<0,0>>, +inf = <<1,0>>, -inf = <<-1,0>>.  Arithmetic on finite   *)
(* values is exact (rounding is not modelled); division by zero and the    *)
(* propagation of NaN and inf follow IEEE 754 as numpy/pandas do.          *)
(*                                                                         *)
(* Positions.  pandas positions are 0-based, TLA+ sequences 1-based:       *)
(* position i of a series s is s[i + 1], written At(s, i).                 *)
(***************************************************************************)
EXTENDS Integers, Sequences, FiniteSets

VARIABLES
    data,      \* self.data rows: sequence of [high, low, close, vol], with
               \* datetime, open and the missing cells (nan) where modelled
    columns,   \* whether self.data has the OHLCV columns at all
    op,        \* name of the last method called
    args,      \* its arguments
    result,    \* the value it returned
    raised,    \* the exception it raised, "none" otherwise
    reports,   \* per asset name, the first report built from this object
    batch,     \* the file system analyze_all_assets saves into
    stdin,     \* the lines the MCP server has not read yet
    stdout,    \* the responses the MCP server has written
    pc,        \* where the running loop stands ("idle": no loop running)
    all_records, \* get_long_short_ratio: the records collected so far
    end_ts     \* get_long_short_ratio: <<>> for None, <<ts>> once set

vars == <<data, columns, op, args, result, raised, reports, batch,
          stdin, stdout, pc, all_records, end_ts>>

\* The state of the two loops outside the analysis library.
remote == <<stdin, stdout, pc, all_records, end_ts>>

NoRemote ==
    /\ stdin = <<>>
    /\ stdout = <<>>
    /\ pc = "idle"
    /\ all_records = <<>>
    /\ end_ts = <<>>

\* ------------------------------------------------------------------ bounds

MaxLen == 4
MaxPrice == 3
MaxPeriod == 3
MaxObvLen == 3
MaxVol == 2
MaxLevel == 4
MaxFibLen == 1
MaxRangeLen == 5
MaxRangePrice == 2
MaxWindow == 2
MaxAllLen == 3
MaxAllPrice == 2
MaxPlateau == 5
MaxTail == 1
MaxFrameLen == 2
MaxRawLen == 2
MaxIds == 3
MaxDmiPrice == 3
MaxDmiLen == 2
MaxLines == 2
MaxLimit == 3

\* ----------------------------------------------------------- float values

NaN == <<0, 0>>
PosInf == <<1, 0>>
NegInf == <<-1, 0>>

Abs(n) == IF n < 0 THEN -n ELSE n
Sign(n) == IF n > 0 THEN 1 ELSE IF n < 0 THEN -1 ELSE 0

RECURSIVE GCD(_, _)
GCD(a, b) == IF b = 0 THEN a ELSE GCD(b, a % b)

Norm(n, d) ==
    IF d = 0 THEN <<Sign(n), 0>>
    ELSE LET g == GCD(Abs(n), Abs(d))
             s == Sign(d)
         IN  <<(s * n) \div g, (s * d) \div g>>

Num(i) == <<i, 1>>
IsNaN(x) == x = NaN
IsFinite(x) == x[2] # 0
IsInf(x) == x = PosInf \/ x = NegInf

FNeg(x) == <<-x[1], x[2]>>

FAdd(x, y) ==
    IF IsNaN(x) \/ IsNaN(y) THEN NaN
    ELSE IF IsInf(x) /\ IsInf(y) THEN (IF x = y THEN x ELSE NaN)
    ELSE IF IsInf(x) THEN x
    ELSE IF IsInf(y) THEN y
    ELSE LET g == GCD(x[2], y[2])
         IN  Norm(x[1] * (y[2] \div g) + y[1] * (x[2] \div g), (x[2] \div g) * y[2])

FSub(x, y) == FAdd(x, FNeg(y))

FMul(x, y) ==
    IF IsNaN(x) \/ IsNaN(y) THEN NaN
    ELSE IF IsInf(x) \/ IsInf(y)
         THEN <<Sign(x[1]) * Sign(y[1]), 0>>      \* inf * 0 = NaN
    ELSE Norm(x[1] * y[1], x[2] * y[2])

FDiv(x, y) ==
    IF IsNaN(x) \/ IsNaN(y) THEN NaN
    ELSE IF IsInf(x) THEN (IF IsInf(y) THEN NaN
                           ELSE <<x[1] * (IF y[1] < 0 THEN -1 ELSE 1), 0>>)
    ELSE IF IsInf(y) THEN Num(0)
    ELSE IF y[1] = 0 THEN <<Sign(x[1]), 0>>      \* x/0 = +-inf, 0/0 = NaN
    ELSE Norm(x[1] * y[2], x[2] * y[1])

\* Comparisons: every comparison with NaN is false.
FLt(x, y) ==
    /\ ~IsNaN(x) /\ ~IsNaN(y)
    /\ x # y
    /\ IF IsInf(x) \/ IsInf(y)
       THEN x = NegInf \/ y = PosInf
       ELSE x[1] * y[2] < y[1] * x[2]
FGt(x, y) == FLt(y, x)
FEq(x, y) == ~IsNaN(x) /\ ~IsNaN(y) /\ x = y
FLe(x, y) == FLt(x, y) \/ FEq(x, y)
FGe(x, y) == FLe(y, x)

FAbs(x) == <<Abs(x[1]), x[2]>>

\* ----------------------------------------------------------------- series

At(s, i) == s[i + 1]
Positions(s) == 0 .. Len(s) - 1
\* A row whose cell pd.to_numeric coerced to NaN lists the cell's column in
\* its nan field; rows built from numeric values carry no such field.
IsMissing(row, c) == "nan" \in DOMAIN row /\ c \in row.nan
Cell(row, c) == IF IsMissing(row, c) THEN NaN ELSE Num(row[c])
Column(rows, c) == [i \in 1 .. Len(rows) |-> Cell(rows[i], c)]

RECURSIVE SumRange(_, _, _)
SumRange(s, lo, hi) ==
    IF hi < lo THEN Num(0) ELSE FAdd(SumRange(s, lo, hi - 1), s[hi])

\* Mutant: min_periods = 1, a mean over however many observations exist.
RollingMeanPartial(s, w) ==
    [i \in 1 .. Len(s) |->
        LET lo == IF i < w THEN 1 ELSE i - w + 1
        IN  FDiv(SumRange(s, lo, i), Num(i - lo + 1))]

\* Series.rolling(window=w).mean(): min_periods defaults to the window.
RollingMean(s, w) ==
    [i \in 1 .. Len(s) |->
        IF i < w THEN NaN ELSE FDiv(SumRange(s, i - w + 1, i), Num(w))]

\* Series.rolling(window=w).std(): the sample standard deviation (ddof = 1),
\* kept as its square.  It needs more than ddof observations: a window of
\* one observation has no sample deviation.
RECURSIVE SumSqDev(_, _, _, _)
SumSqDev(s, m, lo, hi) ==
    IF hi < lo THEN Num(0)
    ELSE FAdd(SumSqDev(s, m, lo, hi - 1),
              FMul(FSub(s[hi], m), FSub(s[hi], m)))

RollingDdof == 1

\* Mutant: the population deviation (ddof = 0).
RollingVarPopulation(s, w) ==
    [i \in 1 .. Len(s) |->
        IF i < w THEN NaN
        ELSE LET m == FDiv(SumRange(s, i - w + 1, i), Num(w))
             IN  FDiv(SumSqDev(s, m, i - w + 1, i), Num(w))]

RollingVar(s, w) ==
    [i \in 1 .. Len(s) |->
        IF i < w \/ w <= RollingDdof THEN NaN
        ELSE LET m == FDiv(SumRange(s, i - w + 1, i), Num(w))
             IN  FDiv(SumSqDev(s, m, i - w + 1, i), Num(w - RollingDdof))]

\* A value base + coef * sqrt(rad), the square root kept symbolic.  It is
\* NaN when base or rad is.
Surd(b, c, r) == [base |-> b, coef |-> c, rad |-> r]
SurdIsNaN(u) == IsNaN(u.base) \/ IsNaN(u.rad)

\* Series.diff() and Series.shift(): position 0 has no predecessor.
Diff(s) == [i \in 1 .. Len(s) |-> IF i = 1 THEN NaN ELSE FSub(s[i], s[i - 1])]
Shift(s) == [i \in 1 .. Len(s) |-> IF i = 1 THEN NaN ELSE s[i - 1]]

\* Series.ewm(alpha, adjust=False).mean() with ignore_na=False: the running
\* weighted value and the weight of the history, after position i.
\* Mutant: a smoothing that starts from zero instead of the first value.
EwmSeedZero(s) == Num(0)

EwmSeed(s) == s[1]

RECURSIVE EwmState(_, _, _)
EwmState(s, alpha, i) ==
    IF i = 1 THEN [weighted |-> EwmSeed(s), old_wt |-> Num(1)]
    ELSE LET prev == EwmState(s, alpha, i - 1)
             cur == s[i]
             wt == FMul(prev.old_wt, FSub(Num(1), alpha))
         IN  IF ~IsNaN(prev.weighted)
             THEN IF ~IsNaN(cur)
                  THEN [weighted |->
                            IF prev.weighted # cur
                            THEN FDiv(FAdd(FMul(wt, prev.weighted), FMul(alpha, cur)),
                                      FAdd(wt, alpha))
                            ELSE prev.weighted,
                        old_wt |-> Num(1)]
                  ELSE [weighted |-> prev.weighted, old_wt |-> wt]
             ELSE IF ~IsNaN(cur)
                  THEN [weighted |-> cur, old_wt |-> prev.old_wt]
                  ELSE prev

Ewm(s, alpha) == [i \in 1 .. Len(s) |-> EwmState(s, alpha, i).weighted]
SpanAlpha(span) == FDiv(Num(2), Num(span + 1))
ComAlpha(com) == FDiv(Num(1), Num(1 + com))

\* ------------------------------------------------------------- indicators

calculate_ma(rows, period) == RollingMean(Column(rows, "close"), period)

calculate_ema(rows, period) == Ewm(Column(rows, "close"), SpanAlpha(period))

\* delta.where(delta > 0, 0): the NaN of position 0 fails the test and is
\* replaced by 0 like every non-positive change.
Gain(delta) == [i \in 1 .. Len(delta) |-> IF FGt(delta[i], Num(0)) THEN delta[i] ELSE Num(0)]
\* Mutant: the losses kept with their sign.
LossSigned(delta) == [i \in 1 .. Len(delta) |-> IF FLt(delta[i], Num(0)) THEN delta[i] ELSE Num(0)]

Loss(delta) == [i \in 1 .. Len(delta) |-> FNeg(IF FLt(delta[i], Num(0)) THEN delta[i] ELSE Num(0))]

RsiOf(rs) == FSub(Num(100), FDiv(Num(100), FAdd(Num(1), rs)))

calculate_rsi(rows, period) ==
    LET delta == Diff(Column(rows, "close"))
        avg_gain == RollingMean(Gain(delta), period)
        avg_loss == RollingMean(Loss(delta), period)
    IN  [i \in 1 .. Len(rows) |-> RsiOf(FDiv(avg_gain[i], avg_loss[i]))]

calculate_bollinger_bands(rows, period, std_dev) ==
    LET middle == RollingMean(Column(rows, "close"), period)
        var == RollingVar(Column(rows, "close"), period)
    IN  [upper |-> [i \in 1 .. Len(rows) |-> Surd(middle[i], std_dev, var[i])],
         middle |-> middle,
         lower |-> [i \in 1 .. Len(rows) |-> Surd(middle[i], -std_dev, var[i])]]

\* calculate_obv: obv.iloc[0] = vol.iloc[0] indexes position 0, which an
\* empty frame does not have.
ObvRaises(rows) == Len(rows) = 0

\* Mutant: a running sum that starts from zero.
ObvSeedZero(rows) == Num(0)

ObvSeed(rows) == Cell(rows[1], "vol")

RECURSIVE ObvAt(_, _)
ObvAt(rows, i) ==
    IF i = 1 THEN ObvSeed(rows)
    ELSE IF FGt(Cell(rows[i], "close"), Cell(rows[i - 1], "close"))
         THEN FAdd(ObvAt(rows, i - 1), Cell(rows[i], "vol"))
    ELSE IF FLt(Cell(rows[i], "close"), Cell(rows[i - 1], "close"))
         THEN FSub(ObvAt(rows, i - 1), Cell(rows[i], "vol"))
    ELSE ObvAt(rows, i - 1)

calculate_obv(rows) == [i \in 1 .. Len(rows) |-> ObvAt(rows, i)]

\* The retracement ratios, in thousandths.
FibRatio(label) ==
    CASE label = "0.236" -> Norm(236, 1000)
      [] label = "0.382" -> Norm(382, 1000)
      [] label = "0.5" -> Norm(500, 1000)
      [] label = "0.618" -> Norm(618, 1000)
      [] label = "0.786" -> Norm(786, 1000)

FibLabels == {"0.0", "0.236", "0.382", "0.5", "0.618", "0.786", "1.0"}

\* Mutant: the levels measured up from the low.
FibLevelFromLow(high, low, label) ==
    FAdd(Num(low), FMul(FSub(Num(high), Num(low)), FibRatio(label)))

FibLevel(high, low, label) ==
    FSub(Num(high), FMul(FSub(Num(high), Num(low)), FibRatio(label)))

calculate_fibonacci_retracement(high, low) ==
    [label \in FibLabels |->
        IF label = "0.0" THEN Num(high)
        ELSE IF label = "1.0" THEN Num(low)
        ELSE FibLevel(high, low, label)]

\* Series.iloc[k]: a negative position counts from the end.
Iloc(s, k) == IF k < 0 THEN s[Len(s) + k + 1] ELSE s[k + 1]

\* range(a, b) as a sequence.
Range(a, b) == [k \in 1 .. (IF b > a THEN b - a ELSE 0) |-> a + k - 1]

\* Mutant: a scan that starts one position early.
SRCandidatesEarly(n, window) == Range(window - 1, n - window)

SRCandidates(n, window) == Range(window, n - window)

IsResistance(rows, i, window) ==
    /\ \A j \in 1 .. window : Iloc(rows, i).high >= Iloc(rows, i - j).high
    /\ \A j \in 1 .. window : Iloc(rows, i).high >= Iloc(rows, i + j).high

IsSupport(rows, i, window) ==
    /\ \A j \in 1 .. window : Iloc(rows, i).low <= Iloc(rows, i - j).low
    /\ \A j \in 1 .. window : Iloc(rows, i).low <= Iloc(rows, i + j).low

\* The positions each loop appends a level for, in order.
ResistancePositions(rows, window) ==
    SelectSeq(SRCandidates(Len(rows), window), LAMBDA i : IsResistance(rows, i, window))
SupportPositions(rows, window) ==
    SelectSeq(SRCandidates(Len(rows), window), LAMBDA i : IsSupport(rows, i, window))

\* The two lists returned, each level with the position it was read at
\* (the position is the loop index; the code returns the levels only).
find_support_resistance(rows, window) ==
    LET sp == SupportPositions(rows, window)
        rp == ResistancePositions(rows, window)
    IN  [support |-> [k \in DOMAIN sp |-> Num(Iloc(rows, sp[k]).low)],
         resistance |-> [k \in DOMAIN rp |-> Num(Iloc(rows, rp[k]).high)],
         support_at |-> sp,
         resistance_at |-> rp]

calculate_macd(rows, fast, slow, signal) ==
    LET exp1 == Ewm(Column(rows, "close"), SpanAlpha(fast))
        exp2 == Ewm(Column(rows, "close"), SpanAlpha(slow))
        dif == [i \in 1 .. Len(rows) |-> FSub(exp1[i], exp2[i])]
        dea == Ewm(dif, SpanAlpha(signal))
    IN  [dif |-> dif,
         dea |-> dea,
         histogram |-> [i \in 1 .. Len(rows) |-> FMul(FSub(dif[i], dea[i]), Num(2))]]

\* min and max that skip NaN (pandas skipna): NaN only when both are.
FMin(x, y) == IF IsNaN(x) THEN y ELSE IF IsNaN(y) THEN x ELSE IF FLt(y, x) THEN y ELSE x
\* Mutant: a maximum that is missing as soon as one operand is.
FMaxPropagates(x, y) == IF IsNaN(x) \/ IsNaN(y) THEN NaN ELSE IF FGt(y, x) THEN y ELSE x
FMax(x, y) == IF IsNaN(x) THEN y ELSE IF IsNaN(y) THEN x ELSE IF FGt(y, x) THEN y ELSE x

RECURSIVE MinRange(_, _, _)
MinRange(s, lo, hi) == IF hi = lo THEN s[lo] ELSE FMin(MinRange(s, lo, hi - 1), s[hi])
RECURSIVE MaxRange(_, _, _)
MaxRange(s, lo, hi) == IF hi = lo THEN s[lo] ELSE FMax(MaxRange(s, lo, hi - 1), s[hi])

HasNaN(s, lo, hi) == \E j \in lo .. hi : IsNaN(s[j])

\* Series.rolling(window=n, min_periods=n).min() / .max()
RollingMin(s, n) ==
    [i \in 1 .. Len(s) |->
        IF i < n \/ HasNaN(s, i - n + 1, i) THEN NaN ELSE MinRange(s, i - n + 1, i)]
RollingMax(s, n) ==
    [i \in 1 .. Len(s) |->
        IF i < n \/ HasNaN(s, i - n + 1, i) THEN NaN ELSE MaxRange(s, i - n + 1, i)]

calculate_kdj(rows, n, m1, m2) ==
    LET low_list == RollingMin(Column(rows, "low"), n)
        high_list == RollingMax(Column(rows, "high"), n)
        close == Column(rows, "close")
        rsv == [i \in 1 .. Len(rows) |->
                   FMul(FDiv(FSub(close[i], low_list[i]),
                             FSub(high_list[i], low_list[i])), Num(100))]
        k == Ewm(rsv, ComAlpha(m1 - 1))
        d == Ewm(k, ComAlpha(m2 - 1))
    IN  [k |-> k,
         d |-> d,
         j |-> [i \in 1 .. Len(rows) |->
                   FSub(FMul(Num(3), k[i]), FMul(Num(2), d[i]))]]

\* s[s < 0] = 0: a NaN fails the test and stays.
ZeroNegative(s) == [i \in 1 .. Len(s) |-> IF FLt(s[i], Num(0)) THEN Num(0) ELSE s[i]]
\* s[s <= other] = 0
ZeroWhereLe(s, other) ==
    [i \in 1 .. Len(s) |-> IF FLe(s[i], other[i]) THEN Num(0) ELSE s[i]]

\* The +DM series after the three in-place assignments of lines 195-197.
PlusDM(rows) ==
    LET plus_dm == ZeroNegative(Diff(Column(rows, "high")))
        minus_dm == ZeroNegative([i \in 1 .. Len(rows) |-> FNeg(Diff(Column(rows, "low"))[i])])
    IN  ZeroWhereLe(plus_dm, minus_dm)

\* The -DM series: line 198 compares with the +DM already zeroed by line 197.
MinusDM(rows) ==
    LET minus_dm == ZeroNegative([i \in 1 .. Len(rows) |-> FNeg(Diff(Column(rows, "low"))[i])])
    IN  ZeroWhereLe(minus_dm, PlusDM(rows))

\* pd.concat([high - low, |high - close.shift()|, |low - close.shift()|],
\* axis=1).max(axis=1)
TrueRange(rows) ==
    LET high == Column(rows, "high")
        low == Column(rows, "low")
        prev == Shift(Column(rows, "close"))
    IN  [i \in 1 .. Len(rows) |->
            FMax(FMax(FSub(high[i], low[i]), FAbs(FSub(high[i], prev[i]))),
                 FAbs(FSub(low[i], prev[i])))]

calculate_dmi(rows, period) ==
    LET atr == RollingMean(TrueRange(rows), period)
        plus_avg == RollingMean(PlusDM(rows), period)
        minus_avg == RollingMean(MinusDM(rows), period)
        plus_di == [i \in 1 .. Len(rows) |-> FDiv(FMul(Num(100), plus_avg[i]), atr[i])]
        minus_di == [i \in 1 .. Len(rows) |-> FDiv(FMul(Num(100), minus_avg[i]), atr[i])]
        dx == [i \in 1 .. Len(rows) |->
                  FDiv(FMul(Num(100), FAbs(FSub(plus_di[i], minus_di[i]))),
                       FAdd(plus_di[i], minus_di[i]))]
    IN  [plus_di |-> plus_di, minus_di |-> minus_di, adx |-> RollingMean(dx, period)]

calculate_atr(rows, period) == RollingMean(TrueRange(rows), period)

\* calculate_dmi stores zeros with plus_dm[...] = 0 and minus_dm[...] = 0.
\* plus_dm is the object high.diff() returned and minus_dm the object
\* -low.diff() returned: both are new series, so the frame after the four
\* stores is the frame before them.
\* Mutant: minus_dm shares the low column, and its first store lands there.
DmiStoresIntoLow(rows) ==
    [i \in 1 .. Len(rows) |->
        IF FGt(Diff(Column(rows, "low"))[i], Num(0))
        THEN [rows[i] EXCEPT !.low = 0]
        ELSE rows[i]]

\* Mutant: plus_dm shares the high column, and its first store lands there.
DmiStoresIntoHigh(rows) ==
    [i \in 1 .. Len(rows) |->
        IF FLt(Diff(Column(rows, "high"))[i], Num(0))
        THEN [rows[i] EXCEPT !.high = 0]
        ELSE rows[i]]

DmiStores(rows) == rows

\* Series.ffill(): a missing value takes the last value before it.
RECURSIVE FFillAt(_, _)
FFillAt(s, i) ==
    IF ~IsNaN(s[i]) \/ i = 1 THEN s[i] ELSE FFillAt(s, i - 1)
FFill(s) == [i \in 1 .. Len(s) |-> FFillAt(s, i)]

\* Series.pct_change(periods) * 100.  pandas before 3.0 pads missing values
\* first (fill_method='pad'), pandas 3.0 does not: pad says which.
PctChange(s, periods, pad) ==
    LET f == IF pad THEN FFill(s) ELSE s
    IN  [i \in 1 .. Len(s) |->
            IF i <= periods THEN NaN
            ELSE FMul(FSub(FDiv(f[i], f[i - periods]), Num(1)), Num(100))]

\* (bb_upper - bb_lower) / bb_middle, the square root still symbolic.
BandWidth(upper, lower, middle) ==
    [i \in 1 .. Len(middle) |->
        [base |-> FDiv(FSub(upper[i].base, lower[i].base), middle[i]),
         coef |-> FDiv(Num(upper[i].coef - lower[i].coef), middle[i]),
         rad |-> upper[i].rad]]

\* The periods get_all_indicators and _analyze_single_asset pass.
Ma5 == 5
Ma10 == 10
Ma20 == 20
Ma50 == 50
Ema12 == 12
Ema26 == 26
Rsi14 == 14
Rsi6 == 6
MacdSignal == 9
KdjN == 9
KdjM == 3
Dmi14 == 14
BollPeriod == 20
BollStdDev == 2
Atr14 == 14

\* DataFrame.empty: no rows, or no columns.
Empty(rows, cols) == Len(rows) = 0 \/ ~cols

EmptyFrame == <<>>

\* get_all_indicators on a non-empty frame: the new DataFrame 'indicators',
\* one series per column.
get_all_indicators(rows, pad) ==
    LET close == Column(rows, "close")
        volume == Column(rows, "vol")
        macd == calculate_macd(rows, Ema12, Ema26, MacdSignal)
        kdj == calculate_kdj(rows, KdjN, KdjM, KdjM)
        dmi == calculate_dmi(rows, Dmi14)
        bb == calculate_bollinger_bands(rows, BollPeriod, BollStdDev)
    IN  [datetime |-> [i \in 1 .. Len(rows) |-> rows[i].datetime],
         open |-> Column(rows, "open"),
         high |-> Column(rows, "high"),
         low |-> Column(rows, "low"),
         close |-> close,
         volume |-> volume,
         ma5 |-> calculate_ma(rows, Ma5),
         ma10 |-> calculate_ma(rows, Ma10),
         ma20 |-> calculate_ma(rows, Ma20),
         ma50 |-> calculate_ma(rows, Ma50),
         ema12 |-> calculate_ema(rows, Ema12),
         ema26 |-> calculate_ema(rows, Ema26),
         rsi14 |-> calculate_rsi(rows, Rsi14),
         rsi6 |-> calculate_rsi(rows, Rsi6),
         macd_dif |-> macd.dif,
         macd_dea |-> macd.dea,
         macd_hist |-> macd.histogram,
         kdj_k |-> kdj.k,
         kdj_d |-> kdj.d,
         kdj_j |-> kdj.j,
         dmi_plus_di |-> dmi.plus_di,
         dmi_minus_di |-> dmi.minus_di,
         dmi_adx |-> dmi.adx,
         bb_upper |-> bb.upper,
         bb_middle |-> bb.middle,
         bb_lower |-> bb.lower,
         bb_width |-> BandWidth(bb.upper, bb.lower, bb.middle),
         atr14 |-> calculate_atr(rows, Atr14),
         obv |-> calculate_obv(rows),
         price_change_1 |-> PctChange(close, 1, pad),
         price_change_5 |-> PctChange(close, 5, pad),
         price_change_20 |-> PctChange(close, 20, pad),
         volume_change |-> PctChange(volume, 1, pad),
         volume_sma20 |-> RollingMean(volume, 20)]

\* Python None, which is neither a number nor NaN.
PyNone == <<2, 0>>

\* Timestamp.isoformat(): the text that renders the timestamp.
IsoFormat(t) == <<"iso", t>>

\* calculate_fibonacci_retracement on the floats Series.max() and
\* Series.min() return: the value of a column of whole numbers, or NaN when
\* the whole column is missing.
FibOfExtremes(high_price, low_price) ==
    IF IsFinite(high_price) /\ IsFinite(low_price)
    THEN calculate_fibonacci_retracement(high_price[1], low_price[1])
    ELSE [label \in FibLabels |->
             IF label = "0.0" THEN high_price
             ELSE IF label = "1.0" THEN low_price
             ELSE NaN]

\* .iloc[-1] of a derived series.
Snapshot(s) == Iloc(s, -1)

\* _analyze_single_asset(ta, asset) for a frame that has its columns.
_analyze_single_asset(rows, asset) ==
    IF Len(rows) = 0 THEN PyNone
    ELSE
    LET n == Len(rows)
        adx == calculate_dmi(rows, Dmi14).adx
        rsi == calculate_rsi(rows, Rsi14)
        dif == calculate_macd(rows, Ema12, Ema26, MacdSignal).dif
        close == Column(rows, "close")
        high_price == MaxRange(Column(rows, "high"), 1, n)
        low_price == MinRange(Column(rows, "low"), 1, n)
        current_price == Iloc(close, -1)
    IN  [asset |-> asset,
         indicators |->
            [MA5 |-> IF n >= Ma5 THEN Snapshot(calculate_ma(rows, Ma5)) ELSE PyNone,
             MA20 |-> IF n >= Ma20 THEN Snapshot(calculate_ma(rows, Ma20)) ELSE PyNone,
             ADX |-> IF Len(adx) # 0 THEN Snapshot(adx) ELSE PyNone,
             RSI |-> IF Len(rsi) # 0 THEN Snapshot(rsi) ELSE PyNone,
             MACD_DIF |-> IF Len(dif) # 0 THEN Snapshot(dif) ELSE PyNone,
             Fib_Levels |-> FibOfExtremes(high_price, low_price),
             Current_Price |-> current_price,
             Price_Change |->
                FMul(FDiv(FSub(current_price, Iloc(close, 0)), Iloc(close, 0)), Num(100))],
         data_summary |->
            [total_candles |-> n,
             date_range |-> [start |-> IsoFormat(Iloc(rows, 0).datetime),
                             end |-> IsoFormat(Iloc(rows, -1).datetime)]]]

\* pd.to_datetime on the text of a timestamp: the day it names.  A text that
\* names no date raises.
Parseable(text) == text \in {"2024-01-01", "2024-01-02", "2024-01-03"}
to_datetime(text) ==
    CASE text = "2024-01-01" -> 1
      [] text = "2024-01-02" -> 2
      [] text = "2024-01-03" -> 3

\* pd.to_numeric(errors='coerce') on the text of a number.
IsNumeric(text) == text \in {"0", "1", "2"}
to_numeric(text) ==
    CASE text = "0" -> 0
      [] text = "1" -> 1
      [] text = "2" -> 2

Ohlcv == {"open", "high", "low", "close", "vol"}

\* Mutant: a coercion that writes zero, which no cell records as missing.
CoercedToZero(raw) == {}

\* The cells of a record pd.to_numeric(errors='coerce') turns into NaN.
Coerced(raw) == {c \in Ohlcv : ~IsNumeric(raw[c])}

\* One record after pd.to_datetime and pd.to_numeric.
Converted(raw) ==
    [datetime |-> to_datetime(raw.datetime),
     open |-> IF IsNumeric(raw.open) THEN to_numeric(raw.open) ELSE 0,
     high |-> IF IsNumeric(raw.high) THEN to_numeric(raw.high) ELSE 0,
     low |-> IF IsNumeric(raw.low) THEN to_numeric(raw.low) ELSE 0,
     close |-> IF IsNumeric(raw.close) THEN to_numeric(raw.close) ELSE 0,
     vol |-> IF IsNumeric(raw.vol) THEN to_numeric(raw.vol) ELSE 0,
     nan |-> Coerced(raw)]

Permutations(n) == {f \in [1 .. n -> 1 .. n] : \A i, j \in 1 .. n : f[i] = f[j] => i = j}

\* sort_values('datetime').reset_index(drop=True): the rows in ascending
\* order of timestamp.  The default sort is not stable, so rows of equal
\* timestamp may come out in any order.
Sorted(rows) ==
    {[i \in 1 .. Len(rows) |-> rows[f[i]]] : f \in
        {g \in Permutations(Len(rows)) :
            \A i \in 1 .. Len(rows) - 1 : rows[g[i]].datetime <= rows[g[i + 1]].datetime}}

\* _process_dataframe raises when pd.to_datetime meets a text it cannot parse.
ProcessRaises(raws) == \E i \in 1 .. Len(raws) : ~Parseable(raws[i].datetime)

\* The frames _process_dataframe can leave in self.data.
_process_dataframe(raws) == Sorted([i \in 1 .. Len(raws) |-> Converted(raws[i])])

\* ------------------------------------------------------------------ state

Prices == 1 .. MaxPrice
Periods == 1 .. MaxPeriod
\* The band width std_dev: the default 2, and 1.
Widths == {1, 2}

SeqsUpTo(S, n) == UNION {[1 .. k -> S] : k \in 0 .. n}

FlatCandle(c) == [high |-> c, low |-> c, close |-> c, vol |-> 1]
CloseSeries == {[i \in DOMAIN cs |-> FlatCandle(cs[i])] : cs \in SeqsUpTo(Prices, MaxLen)}

\* TechnicalAnalysis.__init__: a non-empty kline_data list or a DataFrame
\* returned by get_okx_candles has the OHLCV columns; kline_data = [] or a
\* failed retrieval leaves pd.DataFrame(), which has no columns.
\* No report built yet; no file system in play.
NoReports == <<>>
NoBatch == <<>>

Constructed(S) ==
    /\ \/ data \in S /\ columns = TRUE
       \/ data = <<>> /\ columns = FALSE
    /\ op = "init"
    /\ args = <<>>
    /\ result = <<>>
    /\ raised = "none"
    /\ reports = NoReports
    /\ batch = NoBatch
    /\ NoRemote

InitClose == Constructed(CloseSeries)

\* Candles whose close and volume vary.
VolCandles == {[high |-> c, low |-> c, close |-> c, vol |-> v] : c \in Prices, v \in 0 .. MaxVol}
InitObv == Constructed(SeqsUpTo(VolCandles, MaxObvLen))

\* Candles whose high and low vary.
RangeCandles ==
    {[high |-> h, low |-> l, close |-> h, vol |-> 1] :
        <<h, l>> \in {hl \in (1 .. MaxRangePrice) \X (1 .. MaxRangePrice) : hl[2] <= hl[1]}}
InitRange == Constructed(SeqsUpTo(RangeCandles, MaxRangeLen))

\* Candles whose high, low and close all vary, low <= close <= high.
AllCandles ==
    {[high |-> h, low |-> l, close |-> c, vol |-> 1] :
        <<h, l, c>> \in {x \in (1 .. MaxAllPrice) \X (1 .. MaxAllPrice) \X (1 .. MaxAllPrice) :
                            x[2] <= x[3] /\ x[3] <= x[1]}}
InitAll == Constructed(SeqsUpTo(AllCandles, MaxAllLen))

InitFib == Constructed({s \in CloseSeries : Len(s) <= MaxFibLen})

Call(name, a, r) ==
    /\ op' = name
    /\ args' = a
    /\ IF columns
       THEN result' = r /\ raised' = "none"
       ELSE result' = <<>> /\ raised' = "KeyError"
    /\ UNCHANGED <<data, columns, reports, batch, remote>>

CalculateMa(p) == Call("calculate_ma", [period |-> p], calculate_ma(data, p))
CalculateEma(p) == Call("calculate_ema", [period |-> p], calculate_ema(data, p))
CalculateRsi(p) == Call("calculate_rsi", [period |-> p], calculate_rsi(data, p))
CalculateBollingerBands(p, k) ==
    Call("calculate_bollinger_bands", [period |-> p, std_dev |-> k],
         calculate_bollinger_bands(data, p, k))

NextMa == \E p \in Periods : CalculateMa(p)
SpecMa == InitClose /\ [][NextMa]_vars

NextEma == \E p \in Periods : CalculateEma(p)
SpecEma == InitClose /\ [][NextEma]_vars

NextRsi == \E p \in Periods : CalculateRsi(p)
SpecRsi == InitClose /\ [][NextRsi]_vars

NextBollinger == \E p \in Periods, k \in Widths : CalculateBollingerBands(p, k)
SpecBollinger == InitClose /\ [][NextBollinger]_vars

CalculateObv ==
    /\ op' = "calculate_obv"
    /\ args' = <<>>
    /\ IF ~columns THEN result' = <<>> /\ raised' = "KeyError"
       ELSE IF ObvRaises(data) THEN result' = <<>> /\ raised' = "IndexError"
       ELSE result' = calculate_obv(data) /\ raised' = "none"
    /\ UNCHANGED <<data, columns, reports, batch, remote>>

NextObv == CalculateObv

SpecObv == InitObv /\ [][NextObv]_vars

\* calculate_fibonacci_retracement reads its two arguments only, never
\* self.data.
CalculateFibonacciRetracement(high, low) ==
    /\ op' = "calculate_fibonacci_retracement"
    /\ args' = [high |-> high, low |-> low]
    /\ result' = calculate_fibonacci_retracement(high, low)
    /\ raised' = "none"
    /\ UNCHANGED <<data, columns, reports, batch, remote>>

NextFib == \E high \in 0 .. MaxLevel, low \in 0 .. MaxLevel : CalculateFibonacciRetracement(high, low)

SpecFib == InitFib /\ [][NextFib]_vars

FindSupportResistance(w) ==
    Call("find_support_resistance", [window |-> w], find_support_resistance(data, w))

NextRange == \E w \in 1 .. MaxWindow : FindSupportResistance(w)

SpecRange == InitRange /\ [][NextRange]_vars

CalculateMacd(f, s, g) ==
    Call("calculate_macd", [fast |-> f, slow |-> s, signal |-> g], calculate_macd(data, f, s, g))
CalculateKdj(n, m1, m2) ==
    Call("calculate_kdj", [n |-> n, m1 |-> m1, m2 |-> m2], calculate_kdj(data, n, m1, m2))
CalculateDmi(p) ==
    /\ op' = "calculate_dmi"
    /\ args' = [period |-> p]
    /\ IF columns
       THEN result' = calculate_dmi(data, p) /\ raised' = "none" /\ data' = DmiStores(data)
       ELSE result' = <<>> /\ raised' = "KeyError" /\ data' = data
    /\ UNCHANGED <<columns, reports, batch, remote>>
CalculateAtr(p) == Call("calculate_atr", [period |-> p], calculate_atr(data, p))

\* The nine indicator functions on one object.
NextAll ==
    \/ \E p \in Periods : CalculateMa(p)
    \/ \E p \in Periods : CalculateEma(p)
    \/ \E p \in Periods : CalculateRsi(p)
    \/ \E f \in Periods, s \in Periods, g \in Periods : f < s /\ CalculateMacd(f, s, g)
    \/ \E n \in Periods, m \in Periods : CalculateKdj(n, m, m)
    \/ \E p \in Periods : CalculateDmi(p)
    \/ \E p \in Periods, k \in Widths : CalculateBollingerBands(p, k)
    \/ \E p \in Periods : CalculateAtr(p)
    \/ CalculateObv

SpecAll == InitAll /\ [][NextAll]_vars

\* A normalized frame: every row has its timestamp (the day number, in
\* ascending order) and the six columns.  The frames are a run of equal
\* candles followed by a few candles that differ, whose close may be a
\* value pd.to_numeric coerced to NaN.
Candle(t, h, l, c, nan) ==
    [datetime |-> t, open |-> c, high |-> h, low |-> l, close |-> c, vol |-> 1, nan |-> nan]

TailShapes ==
    {[high |-> 1, low |-> 1, close |-> 1], [high |-> 2, low |-> 1, close |-> 2],
     [high |-> 2, low |-> 2, close |-> 2]}

Tails == SeqsUpTo(TailShapes \X {{}, {"close"}}, MaxTail)

PlateauFrame(k, p, tail) ==
    [i \in 1 .. k + Len(tail) |->
        IF i <= k THEN Candle(i, p, p, p, {})
        ELSE LET c == tail[i - k]
             IN  Candle(i, c[1].high, c[1].low, c[1].close, c[2])]

ReportFrames ==
    {PlateauFrame(k, p, tail) : k \in 0 .. MaxPlateau, p \in {1, 2}, tail \in Tails}

InitReport == Constructed(ReportFrames)

Assets == {"A", "B"}

\* _analyze_single_asset(ta, asset): the report, remembered per asset name
\* the first time it is built, with whether it has been built again since.
AnalyzeSingleAsset(asset) ==
    /\ op' = "_analyze_single_asset"
    /\ args' = [asset |-> asset]
    /\ result' = _analyze_single_asset(data, asset)
    /\ raised' = "none"
    /\ reports' = [a \in DOMAIN reports \cup {asset} |->
                      IF a # asset THEN reports[a]
                      ELSE IF a \in DOMAIN reports THEN [reports[a] EXCEPT !.rebuilt = TRUE]
                      ELSE [first |-> result', rebuilt |-> FALSE]]
    /\ UNCHANGED <<data, columns, batch, remote>>

\* get_all_indicators: every store goes into the new DataFrame it returns.
GetAllIndicators ==
    /\ op' = "get_all_indicators"
    /\ args' = <<>>
    /\ \/ Empty(data, columns) /\ result' = EmptyFrame
       \/ ~Empty(data, columns) /\ \E pad \in BOOLEAN : result' = get_all_indicators(data, pad)
    /\ raised' = "none"
    /\ UNCHANGED <<data, columns, reports, batch, remote>>

\* The report builder, and indicator functions it calls with the periods it
\* passes, on one object.
NextReport ==
    \/ CalculateMa(Ma5)
    \/ CalculateDmi(Dmi14)
    \/ \E asset \in Assets : AnalyzeSingleAsset(asset)

SpecReport == InitReport /\ [][NextReport]_vars

InitFrame == Constructed({f \in ReportFrames : Len(f) <= MaxFrameLen})

\* The periods the frame specification calls the indicators with.
FramePeriods == {1, 2}

\* Every Indicator Library function on one object.
NextFrame ==
    \/ \E p \in FramePeriods : CalculateMa(p)
    \/ \E p \in FramePeriods : CalculateEma(p)
    \/ \E p \in FramePeriods : CalculateRsi(p)
    \/ \E g \in FramePeriods : CalculateMacd(1, 2, g)
    \/ \E n \in FramePeriods, m \in FramePeriods : CalculateKdj(n, m, m)
    \/ \E p \in FramePeriods : CalculateDmi(p)
    \/ \E p \in FramePeriods, k \in Widths : CalculateBollingerBands(p, k)
    \/ \E p \in FramePeriods : CalculateAtr(p)
    \/ CalculateObv
    \/ \E w \in 1 .. MaxWindow : FindSupportResistance(w)
    \/ GetAllIndicators

SpecFrame == InitFrame /\ [][NextFrame]_vars

\* Raw candle records as kline_data holds them: the text of a timestamp
\* and of five numbers, at most one of which is not numeric.
RawTimes == {"2024-01-01", "2024-01-02", "not a date"}
RawValues == {"1", "2"}
RawCandle(t, v, bad) ==
    [datetime |-> t,
     open |-> IF bad = "open" THEN "abc" ELSE v,
     high |-> IF bad = "high" THEN "abc" ELSE v,
     low |-> IF bad = "low" THEN "abc" ELSE v,
     close |-> IF bad = "close" THEN "abc" ELSE v,
     vol |-> IF bad = "vol" THEN "abc" ELSE v]
RawCandles == {RawCandle(t, v, bad) : t \in RawTimes, v \in RawValues, bad \in Ohlcv \cup {"none"}}

\* TechnicalAnalysis(kline_data) up to self.data = pd.DataFrame(kline_data),
\* before _process_dataframe runs.
InitRaw ==
    /\ data \in SeqsUpTo(RawCandles, MaxRawLen)
    /\ columns = (Len(data) > 0)
    /\ op = "init"
    /\ args = <<>>
    /\ result = <<>>
    /\ raised = "none"
    /\ reports = NoReports
    /\ batch = NoBatch
    /\ NoRemote

\* _process_dataframe, called once by the constructor; args keeps the frame
\* it was called on.
ProcessDataframe ==
    /\ op = "init"
    /\ op' = "_process_dataframe"
    /\ args' = data
    /\ result' = <<>>
    /\ IF Empty(data, columns) THEN data' = data /\ raised' = "none"
       ELSE IF ProcessRaises(data) THEN data' = data /\ raised' = "ValueError"
       ELSE data' \in _process_dataframe(data) /\ raised' = "none"
    /\ UNCHANGED <<columns, reports, batch, remote>>

NextNormalize == ProcessDataframe

SpecNormalize == InitRaw /\ [][NextNormalize]_vars

\* ------------------------------------------------------------------ batch

\* results[key] = value on a Python dict, kept as the sequence of its items
\* in insertion order: a new key goes to the end, a key already present
\* keeps its place and takes the new value.
\* Mutant: a key already present moves to the end.
DictSetMovesToEnd(d, key, value) ==
    Append(SelectSeq(d, LAMBDA item : item.key # key), [key |-> key, value |-> value])

DictSet(d, key, value) ==
    IF \E i \in 1 .. Len(d) : d[i].key = key
    THEN [i \in 1 .. Len(d) |-> IF d[i].key = key THEN [key |-> key, value |-> value] ELSE d[i]]
    ELSE Append(d, [key |-> key, value |-> value])

Keys(d) == {d[i].key : i \in 1 .. Len(d)}

\* What get_okx_candles returned for one instrument: None ("none"), a frame
\* of zero candles ("empty"), or a frame of candles.
Retrievals ==
    {[kind |-> "none", rows |-> <<>>], [kind |-> "empty", rows |-> <<>>],
     [kind |-> "frame", rows |-> PlateauFrame(2, 2, <<>>)]}

\* TechnicalAnalysis.from_api: ta.data is the frame retrieved, and
\* pd.DataFrame(), which has no columns, when the retrieval returned None.
from_api(retrieved) ==
    [kind |-> "ta", rows |-> retrieved.rows, cols |-> retrieved.kind # "none"]

\* TechnicalAnalysis(kline_data) on a non-empty list: the constructor raises
\* what _process_dataframe raises, else ta.data is the frame 'frame' that
\* _process_dataframe left.
Construct(kline_data, frame) ==
    IF ProcessRaises(kline_data)
    THEN [kind |-> "raise", rows |-> <<>>, cols |-> FALSE]
    ELSE [kind |-> "ta", rows |-> frame, cols |-> TRUE]

\* _analyze_single_asset returns None, which 'if result:' rejects.
ReturnsNone(rows) == Len(rows) = 0

\* The loop state: the results dict so far and the exception, if any, that
\* left the loop.
\* Mutant: a skip that raises instead of going on to the next item.
SkipRaises(state) == [state EXCEPT !.raised = "ValueError"]

\* 'continue': the next item, results as they are.
Skip(state) == state

\* One pass of the loop body for the ids source (lines 437-449).
IdsBody(state, inst_id, retrieved) ==
    LET ta == from_api(retrieved)
    IN  IF Empty(ta.rows, ta.cols) THEN Skip(state)
        ELSE IF ReturnsNone(ta.rows) THEN state
        ELSE [state EXCEPT !.results =
                  DictSet(@, inst_id, _analyze_single_asset(ta.rows, inst_id))]

\* One pass of the loop body for the file source (lines 423-432).
FileBody(state, asset, kline_data, frame) ==
    IF Len(kline_data) = 0 THEN Skip(state)
    ELSE LET ta == Construct(kline_data, frame)
         IN  IF ta.kind = "raise" THEN [state EXCEPT !.raised = "ValueError"]
             ELSE IF ReturnsNone(ta.rows) THEN state
             ELSE [state EXCEPT !.results =
                       DictSet(@, asset, _analyze_single_asset(ta.rows, asset))]

\* The loop over the first k items; an exception ends it.
RECURSIVE IdsLoop(_, _, _)
IdsLoop(inst_ids, retrieved, k) ==
    IF k = 0 THEN [results |-> <<>>, raised |-> "none"]
    ELSE LET state == IdsLoop(inst_ids, retrieved, k - 1)
         IN  IF state.raised # "none" THEN state
             ELSE IdsBody(state, inst_ids[k], retrieved[k])

RECURSIVE FileLoop(_, _, _)
FileLoop(all_data, frames, k) ==
    IF k = 0 THEN [results |-> <<>>, raised |-> "none"]
    ELSE LET state == FileLoop(all_data, frames, k - 1)
         IN  IF state.raised # "none" THEN state
             ELSE FileBody(state, all_data[k].key, all_data[k].value, frames[k])

\* json.dump(results, f, ...): the text written, which renders results.
JsonDump(results) == <<"json", results>>

\* Mutant: a run that leaves the file system alone.
SaveNothing(fs, now, results) == fs

\* Lines 454-465: result/ is created if missing and the file
\* technical_analysis_<now>.json written, over a file of that name if any.
Save(fs, now, results) ==
    [dir |-> TRUE,
     files |-> fs.files \cup {now},
     last |-> [name |-> now, content |-> JsonDump(results)]]

\* The calls.  data_file is "none" (not given), "missing" (no such file) or
\* "found", and all_data is then what json.load returned, as the items of
\* the mapping in order, keys distinct; inst_ids is the list given, empty
\* when not given, and retrieved what get_okx_candles returns for each.
Klines ==
    {<<>>,
     <<RawCandle("2024-01-02", "2", "none"), RawCandle("2024-01-01", "1", "none")>>,
     <<RawCandle("2024-01-01", "1", "close")>>,
     <<RawCandle("not a date", "1", "none")>>}

Bundles ==
    {b \in SeqsUpTo([key : Assets, value : Klines], Cardinality(Assets)) :
        \A i, j \in 1 .. Len(b) : b[i].key = b[j].key => i = j}

FileCalls ==
    {[data_file |-> "missing", all_data |-> <<>>, inst_ids |-> <<>>, retrieved |-> <<>>]}
    \cup {[data_file |-> "found", all_data |-> b, inst_ids |-> <<>>, retrieved |-> <<>>] :
             b \in Bundles}

IdsCalls ==
    UNION {{[data_file |-> "none", all_data |-> <<>>, inst_ids |-> ids, retrieved |-> r] :
               ids \in [1 .. k -> Assets], r \in [1 .. k -> Retrievals]} : k \in 0 .. MaxIds}

\* The frames the constructor can leave for each item of all_data.
FramesOf(all_data) ==
    {f \in [1 .. Len(all_data) -> {<<>>} \cup UNION {_process_dataframe(k) : k \in
                {kl \in Klines : Len(kl) > 0 /\ ~ProcessRaises(kl)}}] :
        \A i \in 1 .. Len(all_data) :
            IF Len(all_data[i].value) = 0 \/ ProcessRaises(all_data[i].value)
            THEN f[i] = <<>>
            ELSE f[i] \in _process_dataframe(all_data[i].value)}

\* The file system: whether result/ exists, the files in it (named by the
\* second they were written in), and the file written last.
NoFile == [name |-> -1, content |-> <<>>]
FileSystems ==
    {[dir |-> FALSE, files |-> {}, last |-> NoFile],
     [dir |-> TRUE, files |-> {}, last |-> NoFile],
     [dir |-> TRUE, files |-> {0}, last |-> NoFile]}

InitBatch ==
    /\ data = <<>>
    /\ columns = FALSE
    /\ op = "init"
    /\ args = <<>>
    /\ result = <<>>
    /\ raised = "none"
    /\ reports = NoReports
    /\ batch \in FileSystems
    /\ NoRemote

\* Lines 414-420 and 450-452: the returns that come before the save.
ReturnsEarly(call) ==
    \/ call.data_file = "missing"
    \/ call.data_file = "none" /\ Len(call.inst_ids) = 0

\* analyze_all_assets, one call, at second 'now'.
AnalyzeAllAssets(call, frames, now) ==
    /\ op = "init"
    /\ op' = "analyze_all_assets"
    /\ args' = call
    /\ LET state == IF call.data_file = "found"
                    THEN FileLoop(call.all_data, frames, Len(call.all_data))
                    ELSE IdsLoop(call.inst_ids, call.retrieved, Len(call.inst_ids))
       IN  IF ReturnsEarly(call)
           THEN result' = <<>> /\ raised' = "none" /\ batch' = batch
           ELSE IF state.raised # "none"
           THEN result' = <<>> /\ raised' = state.raised /\ batch' = batch
           ELSE /\ result' = state.results
                /\ raised' = "none"
                /\ batch' = Save(batch, now, state.results)
    /\ UNCHANGED <<data, columns, reports, remote>>

NextBatch ==
    \/ \E call \in FileCalls : \E frames \in FramesOf(call.all_data), now \in {0, 1} :
          AnalyzeAllAssets(call, frames, now)
    \/ \E call \in IdsCalls, now \in {0, 1} : AnalyzeAllAssets(call, <<>>, now)

SpecBatch == InitBatch /\ [][NextBatch]_vars

\* Candles whose high and low move apart freely (an outside bar raises the
\* high and lowers the low at once); the close is the low.
WideCandles ==
    {[high |-> h, low |-> l, close |-> l, vol |-> 1] :
        <<h, l>> \in {hl \in (1 .. MaxDmiPrice) \X (1 .. MaxDmiPrice) : hl[2] <= hl[1]}}
InitDmi == Constructed(SeqsUpTo(WideCandles, MaxDmiLen))

NextDmi == \E p \in Periods : CalculateDmi(p)

SpecDmi == InitDmi /\ [][NextDmi]_vars

NextKdj == \E n \in Periods, m1 \in Widths, m2 \in Widths : CalculateKdj(n, m1, m2)

SpecKdj == InitAll /\ [][NextKdj]_vars

NextAtr == \E p \in Periods : CalculateAtr(p)

SpecAtr == InitAll /\ [][NextAtr]_vars

\* ------------------------------------------------------------ MCP server
\* crypto_mcp_server.py: main reads one JSON-RPC request per line of stdin
\* and writes one response per line of stdout.

\* JSON null, and Python None once it is dumped; an id is kept as its JSON
\* text.
JsonNull == "null"

\* The tools handle_tool_call knows.
Tools ==
    {"get_candles", "get_funding_rate", "get_open_interest", "get_long_short_ratio",
     "get_liquidation", "get_top_trader_position_ratio", "get_option_oi_volume_ratio",
     "get_fear_greed_index"}
\* Tools that read a required key with arguments[...].
NeedsKey(tool) == tool # "get_fear_greed_index"

\* What the retrieval behind a tool does: a table, None, or an exception
\* (raised by the call or by json.dumps of its rows).
Outcomes == {"frame", "none", "raises"}

Response(request_id, result_) == [jsonrpc |-> "2.0", id |-> request_id, result |-> result_]
ErrorResponse(request_id, code, message) ==
    [jsonrpc |-> "2.0", id |-> request_id, error |-> [code |-> code, message |-> message]]
InternalError == -32603
MethodNotFound == -32601

handle_initialize(request_id) == Response(request_id, "serverInfo")
handle_tools_list(request_id) == Response(request_id, "tools")

\* params as json.loads leaves them: an object with a name and arguments,
\* or any other JSON value (null, a list, a string, a number).
\* arguments: "ok" an object with the keys the tool reads, "empty" an
\* object without them, "value" no object.
IsObject(v) == v.json = "object"
Content(text) == [type |-> "text", text |-> text]

\* handle_tool_call: [raised, response]; params.get at line 253 stands
\* before the try.
handle_tool_call(request_id, params, outcome) ==
    IF ~IsObject(params)
    THEN [raised |-> "AttributeError", response |-> <<>>]
    ELSE LET tool_name == params.name
             failed == \/ params.arguments = "value"
                       \/ params.arguments = "empty" /\ NeedsKey(tool_name)
                       \/ outcome = "raises"
         IN  [raised |-> "none",
              response |->
                  IF tool_name \in Tools
                  THEN IF failed
                       THEN ErrorResponse(request_id, InternalError, "str(e)")
                       ELSE IF outcome = "frame"
                       THEN Response(request_id, Content("json.dumps(result)"))
                       ELSE Response(request_id, Content("Error: Failed to fetch"))
                  ELSE Response(request_id, Content("Error: Unknown tool"))]

\* sys.stdout.write(json.dumps(response) + "\n")
send_response(out, response) == Append(out, response)

\* request.get(key): the member, None when the object has none.
Get(request, key) == IF key \in DOMAIN request THEN request[key] ELSE JsonNull
NoParams == [json |-> "object", name |-> JsonNull, arguments |-> "ok"]

\* One turn of the while loop of main on a line that was read: the output
\* afterwards. json.loads raises JSONDecodeError on a line that is no JSON
\* (continue); request.get raises AttributeError on a JSON value that is
\* no object, and the except branch answers with id None.
Serve(out, line, outcome) ==
    IF line.json = "invalid" THEN out
    ELSE IF line.json # "object"
    THEN send_response(out, ErrorResponse(JsonNull, InternalError, "str(e)"))
    ELSE LET method == Get(line, "method")
             request_id == Get(line, "id")
             params == IF "params" \in DOMAIN line THEN line.params ELSE NoParams
             called == handle_tool_call(request_id, params, outcome)
         IN  IF method = "initialize"
             THEN send_response(out, handle_initialize(request_id))
             ELSE IF method = "notifications/initialized" THEN out
             ELSE IF method = "tools/list"
             THEN send_response(out, handle_tools_list(request_id))
             ELSE IF method = "tools/call"
             THEN IF called.raised = "none"
                  THEN send_response(out, called.response)
                  ELSE send_response(out, ErrorResponse(JsonNull, InternalError, "str(e)"))
             ELSE send_response(out, ErrorResponse(request_id, MethodNotFound,
                                                   "Method not found"))

Methods == {"initialize", "notifications/initialized", "tools/list", "tools/call", "bogus"}
RequestIds == {"7", "8"}
ToolNames == {"get_candles", "get_fear_greed_index", "bogus"}
ParamValues ==
    {[json |-> "value"]} \cup
    {[json |-> "object", name |-> n, arguments |-> a] :
        n \in ToolNames \cup {JsonNull}, a \in {"ok", "empty", "value"}}
\* The lines a client can send.
Lines ==
    {[json |-> "invalid"], [json |-> "value"]} \cup
    {[json |-> "object", method |-> m, id |-> i] : m \in Methods, i \in RequestIds} \cup
    {[json |-> "object", method |-> m] : m \in Methods} \cup
    {[json |-> "object", id |-> i] : i \in RequestIds} \cup
    {[json |-> "object", method |-> "tools/call", id |-> i, params |-> q] :
        i \in RequestIds, q \in ParamValues}

InitServer ==
    /\ data = <<>>
    /\ columns = FALSE
    /\ op = "main"
    /\ args = <<>>
    /\ result = <<>>
    /\ raised = "none"
    /\ reports = NoReports
    /\ batch = NoBatch
    /\ stdin \in SeqsUpTo(Lines, MaxLines)
    /\ stdout = <<>>
    /\ pc = "main"
    /\ all_records = <<>>
    /\ end_ts = <<>>

\* sys.stdin.readline() returned a line: one turn of the loop.
ServeLine(outcome) ==
    /\ pc = "main"
    /\ stdin # <<>>
    /\ stdin' = Tail(stdin)
    /\ stdout' = Serve(stdout, Head(stdin), outcome)
    /\ UNCHANGED <<data, columns, op, args, result, raised, reports, batch,
                   pc, all_records, end_ts>>

\* readline() returned '': break.
EndOfInput ==
    /\ pc = "main"
    /\ stdin = <<>>
    /\ pc' = "exit"
    /\ UNCHANGED <<data, columns, op, args, result, raised, reports, batch,
                   stdin, stdout, all_records, end_ts>>

NextServer ==
    \/ \E outcome \in Outcomes : ServeLine(outcome)
    \/ EndOfInput

SpecServer == InitServer /\ [][NextServer]_vars

\* ------------------------------------------------- get_long_short_ratio
\* crypto_data.py: the loop that pages through the long/short ratio
\* endpoint, and the table built from what it collected.

\* A record of the endpoint, [ts, ratio, ...] as texts; the model keeps ts.
StampTexts == {"1", "2", "abc"}
PageRecords == {[ts |-> t] : t \in StampTexts}
PageSizes == {0, 1, 2}
\* What one request can come to: an exception (requests.get, response.json
\* or a payload without the keys read), an error code, or a page.
Answers ==
    {[kind |-> "raises"], [kind |-> "error"]} \cup
    {[kind |-> "page", records |-> r] :
        r \in UNION {[1 .. n -> PageRecords] : n \in PageSizes}}

Min2(a, b) == IF a <= b THEN a ELSE b

\* Mutant: the table is returned whole.
TruncateNothing(rows, limit) == rows

\* df.iloc[:limit], limit >= 1.
Truncate(rows, limit) == SubSeq(rows, 1, Min2(limit, Len(rows)))

\* pd.to_numeric(df['ts']) raises ValueError on a text that is no number.
TableRaises(records) == \E i \in 1 .. Len(records) : ~IsNumeric(records[i].ts)

\* sort_values('datetime', ascending=False).reset_index(drop=True); rows of
\* equal time may come out in any order.
SortedDescending(rows) ==
    {[i \in 1 .. Len(rows) |-> rows[f[i]]] : f \in
        {g \in Permutations(Len(rows)) :
            \A i \in 1 .. Len(rows) - 1 : rows[g[i]].datetime >= rows[g[i + 1]].datetime}}

\* Lines 510-527: the tables the function can return for the records.
LongShortTable(records, limit) ==
    {Truncate(t, limit) : t \in SortedDescending(
        [i \in 1 .. Len(records) |->
            [ts |-> records[i].ts, datetime |-> to_numeric(records[i].ts)]])}

Limits == 0 .. MaxLimit

InitFetch ==
    /\ data = <<>>
    /\ columns = FALSE
    /\ op = "get_long_short_ratio"
    /\ args \in {[limit |-> n] : n \in Limits}
    /\ result = <<>>
    /\ raised = "none"
    /\ reports = NoReports
    /\ batch = NoBatch
    /\ stdin = <<>>
    /\ stdout = <<>>
    /\ pc = "while"
    /\ all_records = <<>>
    /\ end_ts = <<>>

\* One turn of the while loop: the request and what is done with its answer.
Request(answer) ==
    /\ pc = "while"
    /\ Len(all_records) < args.limit
    /\ IF answer.kind = "page" /\ Len(answer.records) > 0
       THEN /\ end_ts' = <<answer.records[Len(answer.records)].ts>>
            /\ all_records' = all_records \o answer.records
            /\ pc' = IF Len(all_records') >= args.limit THEN "return" ELSE "while"
       ELSE /\ pc' = "return"
            /\ UNCHANGED <<all_records, end_ts>>
    /\ UNCHANGED <<data, columns, op, args, result, raised, reports, batch, stdin, stdout>>

\* The while test fails.
LoopExit ==
    /\ pc = "while"
    /\ Len(all_records) >= args.limit
    /\ pc' = "return"
    /\ UNCHANGED <<data, columns, op, args, result, raised, reports, batch,
                   stdin, stdout, all_records, end_ts>>

\* Lines 507-527: None, the table, or the ValueError of pd.to_numeric.
ReturnTable ==
    /\ pc = "return"
    /\ pc' = "done"
    /\ IF Len(all_records) = 0
       THEN result' = PyNone /\ raised' = "none"
       ELSE IF TableRaises(all_records)
       THEN result' = <<>> /\ raised' = "ValueError"
       ELSE result' \in LongShortTable(all_records, args.limit) /\ raised' = "none"
    /\ UNCHANGED <<data, columns, op, args, reports, batch,
                   stdin, stdout, all_records, end_ts>>

NextFetch ==
    \/ \E answer \in Answers : Request(answer)
    \/ LoopExit
    \/ ReturnTable

SpecFetch == InitFetch /\ [][NextFetch]_vars

\* A call that is running runs its next statement; every request ends, by an
\* answer or by the timeout of requests.get.
FairFetch == SpecFetch /\ WF_vars(NextFetch)

\* ----------------------------------------------------------------- claims

Returned(name) == op = name /\ raised = "none"

RECURSIVE CloseSum(_, _, _)
CloseSum(rows, lo, hi) ==
    IF hi < lo THEN 0 ELSE CloseSum(rows, lo, hi - 1) + rows[hi + 1].close

RECURSIVE CloseSqSum(_, _, _)
CloseSqSum(rows, lo, hi) ==
    IF hi < lo THEN 0
    ELSE CloseSqSum(rows, lo, hi - 1) + rows[hi + 1].close * rows[hi + 1].close

\* x is the arithmetic mean of close over positions i-p+1 .. i.
IsTrailingMean(x, rows, i, p) ==
    IsFinite(x) /\ FMul(x, Num(p)) = Num(CloseSum(rows, i - p + 1, i))

\* C1: calculate_ma(p) returns a series as long as the input, missing at
\* positions 0 .. p-2 (everywhere when n < p) and equal, at every position
\* i >= p-1, to the arithmetic mean of close[i-p+1 .. i].
C1_MaTrailingMean ==
    Returned("calculate_ma") =>
        /\ Len(result) = Len(data)
        /\ \A i \in Positions(data) :
              IF i < args.period - 1
              THEN IsNaN(At(result, i))
              ELSE IsTrailingMean(At(result, i), data, i, args.period)

C1_Witness ==
    /\ Returned("calculate_ma")
    /\ args.period = 2
    /\ Len(data) = 3
    /\ IsNaN(At(result, 0))
    /\ At(result, 1) = <<3, 2>>
    /\ At(result, 2) = <<5, 2>>

\* v is the sample variance (divisor p-1) of close over positions i-p+1 .. i:
\* p (p-1) v = p * sum(x^2) - sum(x)^2.
IsTrailingSampleVar(v, rows, i, p) ==
    /\ IsFinite(v)
    /\ FMul(v, Num(p * (p - 1)))
         = Num(p * CloseSqSum(rows, i - p + 1, i)
                 - CloseSum(rows, i - p + 1, i) * CloseSum(rows, i - p + 1, i))

BandsMissingAt(i) ==
    /\ SurdIsNaN(At(result.upper, i))
    /\ IsNaN(At(result.middle, i))
    /\ SurdIsNaN(At(result.lower, i))

\* At position i the middle band is MA(p) and upper/lower are
\* middle +/- k * stddev of the trailing p closes.
BandsDefinedAt(i) ==
    LET u == At(result.upper, i)
        m == At(result.middle, i)
        l == At(result.lower, i)
    IN  /\ IsTrailingMean(m, data, i, args.period)
        /\ ~SurdIsNaN(u) /\ ~SurdIsNaN(l)
        /\ u.base = m /\ u.coef = args.std_dev
        /\ l.base = m /\ l.coef = -args.std_dev
        /\ u.rad = l.rad
        /\ IsTrailingSampleVar(u.rad, data, i, args.period)

BandsAligned ==
    /\ Len(result.upper) = Len(data)
    /\ Len(result.middle) = Len(data)
    /\ Len(result.lower) = Len(data)

\* C2 as stated: for every period p >= 1 the three bands are missing before
\* position p-1 and all defined from position p-1 on, middle = MA(p) and
\* upper/lower = middle +/- k * stddev(p).
C2_BandsFromPMinus1 ==
    Returned("calculate_bollinger_bands") =>
        /\ BandsAligned
        /\ \A i \in Positions(data) :
              IF i < args.period - 1 THEN BandsMissingAt(i) ELSE BandsDefinedAt(i)

\* C2 amended: the same for every period p >= 2, the deviation being the
\* sample standard deviation (divisor p-1); for p = 1 the middle band is
\* the close at every position while upper and lower are missing everywhere.
C2_BandsFromPMinus1_SamplePeriod ==
    Returned("calculate_bollinger_bands") =>
        /\ BandsAligned
        /\ \A i \in Positions(data) :
              IF args.period >= 2
              THEN IF i < args.period - 1 THEN BandsMissingAt(i) ELSE BandsDefinedAt(i)
              ELSE /\ At(result.middle, i) = Num(data[i + 1].close)
                   /\ SurdIsNaN(At(result.upper, i))
                   /\ SurdIsNaN(At(result.lower, i))

C2_Witness ==
    /\ Returned("calculate_bollinger_bands")
    /\ args.period = 2 /\ args.std_dev = 2
    /\ Len(data) = 3
    /\ BandsMissingAt(0)
    /\ At(result.upper, 1) = Surd(<<3, 2>>, 2, <<1, 2>>)
    /\ At(result.lower, 2) = Surd(<<5, 2>>, -2, <<1, 2>>)

IsConstantSeries(rows) ==
    Len(rows) >= 1 /\ \A i \in 1 .. Len(rows) : rows[i].close = rows[1].close

\* C3: on a constant-price series of length n >= 1, calculate_ema(s) returns
\* the constant at every position 0 .. n-1, position 0 included.
C3_EmaConstant ==
    (Returned("calculate_ema") /\ IsConstantSeries(data)) =>
        /\ Len(result) = Len(data)
        /\ \A i \in Positions(data) : At(result, i) = Num(data[1].close)

C3_Witness ==
    /\ Returned("calculate_ema")
    /\ IsConstantSeries(data)
    /\ Len(data) = 3
    /\ args.period = 2
    /\ result = <<Num(2), Num(2), Num(2)>>

\* C4: every defined value of calculate_rsi(p) lies in [0, 100].
C4_RsiBounded ==
    Returned("calculate_rsi") =>
        \A i \in Positions(result) :
            ~IsNaN(At(result, i)) =>
                FGe(At(result, i), Num(0)) /\ FLe(At(result, i), Num(100))

C4_Witness ==
    /\ Returned("calculate_rsi")
    /\ \E i \in Positions(result) :
          FGt(At(result, i), Num(0)) /\ FLt(At(result, i), Num(100))
    /\ \E i \in Positions(result) : At(result, i) = Num(100)
    /\ \E i \in Positions(result) : At(result, i) = Num(0)

\* No close fell within the p changes ending at position i (i >= p).
NoLossInWindow(rows, i, p) ==
    \A j \in i - p + 1 .. i : rows[j + 1].close >= rows[j].close

\* C5: at every position whose trailing-p average loss is zero, a window
\* with no price change at all included, calculate_rsi(p) is 100, never
\* missing.
C5_RsiSaturates ==
    Returned("calculate_rsi") =>
        \A i \in Positions(data) :
            (i >= args.period /\ NoLossInWindow(data, i, args.period)) =>
                At(result, i) = Num(100)

\* C6: calculate_rsi(p) is missing at each of the first p positions.
C6_RsiWarmup ==
    Returned("calculate_rsi") =>
        \A i \in Positions(data) : i < args.period => IsNaN(At(result, i))

\* C8: OBV[0] = volume[0]; for i >= 1, OBV[i] - OBV[i-1] is +volume[i] when
\* close rose, -volume[i] when it fell and 0 when it is unchanged; so on
\* strictly ascending closes with positive volume OBV strictly increases.
C8_ObvSteps ==
    (Returned("calculate_obv") /\ Len(data) >= 1) =>
        /\ Len(result) = Len(data)
        /\ At(result, 0) = Num(data[1].vol)
        /\ \A i \in 1 .. Len(data) - 1 :
              LET step == FSub(At(result, i), At(result, i - 1))
                  now == data[i + 1]
                  before == data[i]
              IN  /\ now.close > before.close => step = Num(now.vol)
                  /\ now.close < before.close => step = Num(-now.vol)
                  /\ now.close = before.close => step = Num(0)
                  /\ (now.close > before.close /\ now.vol > 0) =>
                        FGt(At(result, i), At(result, i - 1))

C8_Witness ==
    /\ Returned("calculate_obv")
    /\ Len(data) = 3
    /\ data[1].close < data[2].close /\ data[2].close < data[3].close
    /\ data[1].vol = 1 /\ data[2].vol = 2 /\ data[3].vol = 1
    /\ result = <<Num(1), Num(3), Num(4)>>

FibOrder == <<"0.0", "0.236", "0.382", "0.5", "0.618", "0.786", "1.0">>
FibThousandths == <<0, 236, 382, 500, 618, 786, 1000>>

\* C9: exactly the seven levels, level(r) = high - r * (high - low), so
\* level(0.0) = high and level(1.0) = low; strictly decreasing in the ratio
\* when high > low, all equal to high when high = low.
C9_FibLevels ==
    Returned("calculate_fibonacci_retracement") =>
        /\ DOMAIN result = FibLabels
        /\ \A k \in 1 .. Len(FibOrder) :
              /\ IsFinite(result[FibOrder[k]])
              /\ FMul(result[FibOrder[k]], Num(1000))
                   = Num(1000 * args.high - FibThousandths[k] * (args.high - args.low))
        /\ result["0.0"] = Num(args.high)
        /\ result["1.0"] = Num(args.low)
        /\ args.high > args.low =>
              \A k \in 1 .. Len(FibOrder) - 1 :
                  FGt(result[FibOrder[k]], result[FibOrder[k + 1]])
        /\ args.high = args.low =>
              \A label \in FibLabels : result[label] = Num(args.high)

C9_Witness ==
    /\ Returned("calculate_fibonacci_retracement")
    /\ args.high = 3 /\ args.low = 1
    /\ result["0.236"] = <<316, 125>>
    /\ result["0.5"] = Num(2)
    /\ result["1.0"] = Num(1)

\* C10: every reported level comes from a position i with
\* w <= i <= n-w-1, and a series with n < 2w+1 yields two empty lists.
C10_NoBoundaryLevels ==
    Returned("find_support_resistance") =>
        LET n == Len(data)
            w == args.window
            Interior(at, levels, col) ==
                /\ Len(at) = Len(levels)
                /\ \A k \in DOMAIN at :
                      /\ w <= at[k] /\ at[k] <= n - w - 1
                      /\ levels[k] = Num(data[at[k] + 1][col])
        IN  /\ Interior(result.support_at, result.support, "low")
            /\ Interior(result.resistance_at, result.resistance, "high")
            /\ n < 2 * w + 1 => result.support = <<>> /\ result.resistance = <<>>

C10_Witness ==
    /\ Returned("find_support_resistance")
    /\ args.window = 2
    /\ Len(data) = 5
    /\ result.resistance_at = <<2>>
    /\ result.support_at = <<2>>

\* The fewest candles for which the indicator last called can return a
\* defined value.
MinLookback ==
    CASE op = "calculate_ma" -> args.period
      [] op = "calculate_ema" -> 1
      [] op = "calculate_rsi" -> args.period
      [] op = "calculate_macd" -> 1
      [] op = "calculate_kdj" -> args.n
      [] op = "calculate_dmi" -> args.period + 1
      [] op = "calculate_bollinger_bands" -> args.period
      [] op = "calculate_atr" -> args.period
      [] op = "calculate_obv" -> 1

AllMissing(s) == Len(s) = Len(data) /\ \A i \in 1 .. Len(s) : IsNaN(s[i])

ResultAllMissing ==
    CASE op = "calculate_macd" ->
            AllMissing(result.dif) /\ AllMissing(result.dea) /\ AllMissing(result.histogram)
      [] op = "calculate_kdj" ->
            AllMissing(result.k) /\ AllMissing(result.d) /\ AllMissing(result.j)
      [] op = "calculate_dmi" ->
            AllMissing(result.plus_di) /\ AllMissing(result.minus_di) /\ AllMissing(result.adx)
      [] op = "calculate_bollinger_bands" ->
            /\ BandsAligned
            /\ \A i \in Positions(data) : BandsMissingAt(i)
      [] OTHER -> AllMissing(result)

\* C7: on a Series shorter than the indicator's minimum lookback, the empty
\* Series included, each of the nine indicator functions returns, without
\* raising, a series of the input's length with every value missing.
C7_ShortSeriesAllMissing ==
    (op # "init" /\ columns /\ Len(data) < MinLookback) =>
        raised = "none" /\ ResultAllMissing

\* ------------------------------------------------------------- frame effects

\* C17: no Indicator Library function modifies the Series it reads: every
\* step of calculate_ma, calculate_ema, calculate_dmi, calculate_rsi,
\* calculate_macd, calculate_kdj, calculate_bollinger_bands, calculate_atr,
\* calculate_obv, find_support_resistance and get_all_indicators leaves the
\* rows of the object (every value, every missing cell and the row order)
\* as they were, calculate_dmi's zeroing stores included.
C17_SeriesUnchanged == [][data' = data /\ columns' = columns]_vars

\* calculate_dmi has returned on a frame whose low rises, where -low.diff()
\* is negative and is overwritten with zero; the low column still rises.
C17_Witness ==
    /\ Returned("calculate_dmi")
    /\ Len(data) = 2
    /\ Cell(data[1], "low") = Num(1)
    /\ Cell(data[2], "low") = Num(2)
    /\ FLt(FNeg(Diff(Column(data, "low"))[2]), Num(0))

RECURSIVE LastDefined(_)
LastDefined(s) ==
    IF Len(s) = 0 THEN NaN
    ELSE IF ~IsNaN(s[Len(s)]) THEN s[Len(s)]
    ELSE LastDefined(SubSeq(s, 1, Len(s) - 1))

HasDefined(s) == \E i \in 1 .. Len(s) : ~IsNaN(s[i])

IsLastDefined(x, s) == HasDefined(s) => x = LastDefined(s)

\* C20: for every non-empty Series, each of MA5, MA20, ADX, RSI and MACD_DIF
\* in the snapshot built by _analyze_single_asset is the value of that
\* indicator's derived series at its last defined position, also when the
\* derived series is missing at the final position but defined earlier.
C20_SnapshotLastDefined ==
    (op = "_analyze_single_asset" /\ Len(data) > 0) =>
        /\ IsLastDefined(result.indicators.MA5, calculate_ma(data, Ma5))
        /\ IsLastDefined(result.indicators.MA20, calculate_ma(data, Ma20))
        /\ IsLastDefined(result.indicators.ADX, calculate_dmi(data, Dmi14).adx)
        /\ IsLastDefined(result.indicators.RSI, calculate_rsi(data, Rsi14))
        /\ IsLastDefined(result.indicators.MACD_DIF,
                         calculate_macd(data, Ema12, Ema26, MacdSignal).dif)

\* ------------------------------------------------------------- normalizer

Normalized == op = "_process_dataframe"

HasDuplicateTimestamps(raws) ==
    \E i, j \in 1 .. Len(raws) : i # j /\ raws[i].datetime = raws[j].datetime

\* C18: after _process_dataframe has run on any raw candle collection the
\* timestamps of the resulting Series are strictly ascending, positions
\* 0..n-1, and a raw collection with two records of the same timestamp is
\* rejected as a normalization error instead of giving such a Series.
C18_StrictlyAscending ==
    Normalized =>
        /\ raised = "none" =>
              \A i \in 1 .. Len(data) - 1 : data[i].datetime < data[i + 1].datetime
        /\ HasDuplicateTimestamps(args) => raised # "none"

\* The number a numeric text stands for, as the claim reads it.
TextNumber(text) == IF text = "1" THEN 1 ELSE 2

\* Row 'row' is what record 'raw' should have become.
KeepsParseable(row, raw) ==
    \A c \in Ohlcv :
        /\ raw[c] \in RawValues => Cell(row, c) = Num(TextNumber(raw[c]))
        /\ raw[c] \notin RawValues => IsNaN(Cell(row, c)) /\ Cell(row, c) # Num(0)

\* C19: when a record's open, high, low, close or volume is not parseable as
\* a number (and every timestamp parses), _process_dataframe does not raise,
\* that field of that record becomes the missing marker, never zero, and
\* every parseable field of every record keeps its numeric value: the rows
\* of the Series are the records, reordered, each converted cell by cell.
C19_NonNumericBecomesMissing ==
    (Normalized /\ \A i \in 1 .. Len(args) : args[i].datetime \in {"2024-01-01", "2024-01-02"}) =>
        /\ raised = "none"
        /\ Len(data) = Len(args)
        /\ \E f \in Permutations(Len(args)) :
              \A i \in 1 .. Len(args) : KeepsParseable(data[i], args[f[i]])

\* Two records, the later one first; the close of one is not numeric.
C19_Witness ==
    /\ Normalized
    /\ raised = "none"
    /\ Len(args) = 2
    /\ args[1].datetime = "2024-01-02" /\ args[1].close = "abc" /\ args[1].high = "2"
    /\ args[2].datetime = "2024-01-01" /\ args[2].close = "1"
    /\ IsNaN(Cell(data[2], "close")) /\ Cell(data[2], "high") = Num(2)
    /\ Cell(data[1], "close") = Num(1)

\* ------------------------------------------------------------------ batch

Analyzed == op = "analyze_all_assets"
IdsRun == Analyzed /\ args.data_file = "none" /\ Len(args.inst_ids) > 0

HasData(retrieved) == retrieved.kind = "frame" /\ Len(retrieved.rows) > 0

\* The instruments of an ids call whose retrieval returned a non-empty
\* series, and those it returned no data for.
WithData(call) ==
    {call.inst_ids[i] : i \in {j \in 1 .. Len(call.inst_ids) : HasData(call.retrieved[j])}}
Skipped(call) ==
    {call.inst_ids[i] : i \in {j \in 1 .. Len(call.inst_ids) : ~HasData(call.retrieved[j])}}

\* C11: when analyze_all_assets is called with a list of instrument
\* identifiers and retrieval returns no data for some of them, the call does
\* not raise, those instruments are skipped, the others are processed, and
\* the returned Batch Result has an entry (a report of that instrument) for
\* exactly the instruments whose retrieval returned a non-empty series.
C11_NoDataSkipped ==
    IdsRun =>
        /\ raised = "none"
        /\ Keys(result) = WithData(args)
        /\ \A i \in 1 .. Len(result) :
              \E j \in 1 .. Len(args.inst_ids) :
                  /\ args.inst_ids[j] = result[i].key
                  /\ HasData(args.retrieved[j])
                  /\ result[i].value = _analyze_single_asset(args.retrieved[j].rows, result[i].key)

\* [A, B] with B unavailable: the result holds A only.
C11_Witness ==
    /\ IdsRun
    /\ args.inst_ids = <<"A", "B">>
    /\ HasData(args.retrieved[1])
    /\ args.retrieved[2].kind = "none"
    /\ raised = "none"
    /\ Keys(result) = {"A"}

\* C12: when an instrument is skipped because its retrieval returned no
\* data, the skip is recorded in what analyze_all_assets returns: which
\* instruments were skipped (and so how many) is determined by the returned
\* value, so no two calls return the same value after different skips.
C12_SkipsFromReturnValue ==
    (IdsRun /\ raised = "none") =>
        \A other \in IdsCalls :
            (/\ Len(other.inst_ids) > 0
             /\ IdsLoop(other.inst_ids, other.retrieved, Len(other.inst_ids)).results = result)
            => Skipped(other) = Skipped(args)

\* The keys of a call's input, in input order.
InputKeys(call) ==
    IF call.data_file = "found"
    THEN [i \in 1 .. Len(call.all_data) |-> call.all_data[i].key]
    ELSE call.inst_ids

FirstIndex(s, x) == CHOOSE i \in 1 .. Len(s) : s[i] = x /\ \A j \in 1 .. i - 1 : s[j] # x

\* C13: the Batch Result lists its entries in the order of the input: for
\* any two instruments X and Y in the result, X precedes Y in the result
\* exactly when X first precedes Y in the input, whatever was skipped.
C13_InputOrder ==
    (Analyzed /\ raised = "none") =>
        \A i, j \in 1 .. Len(result) :
            i < j <=> FirstIndex(InputKeys(args), result[i].key)
                        < FirstIndex(InputKeys(args), result[j].key)

\* Whether item i of the input led to a report.
Reports(call, i) ==
    IF call.data_file = "found"
    THEN Len(call.all_data[i].value) > 0
    ELSE HasData(call.retrieved[i])

FirstReport(call, x) ==
    CHOOSE i \in 1 .. Len(InputKeys(call)) :
        /\ InputKeys(call)[i] = x /\ Reports(call, i)
        /\ \A j \in 1 .. i - 1 : ~(InputKeys(call)[j] = x /\ Reports(call, j))

\* C13 (amended): X precedes Y in the result exactly when the first input
\* item of X that led to a report precedes the first such item of Y.
C13_OrderOfFirstReport ==
    (Analyzed /\ raised = "none") =>
        \A i, j \in 1 .. Len(result) :
            i < j <=> FirstReport(args, result[i].key) < FirstReport(args, result[j].key)

\* [A, B, A] where only the first retrieval of A fails: B comes before A.
C13_Witness ==
    /\ IdsRun
    /\ args.inst_ids = <<"A", "B", "A">>
    /\ args.retrieved[1].kind = "none"
    /\ HasData(args.retrieved[2]) /\ HasData(args.retrieved[3])
    /\ Len(result) = 2
    /\ result[1].key = "B" /\ result[2].key = "A"

\* Whether item i of a bundle is computable on its own.
Computable(kline_data) == Len(kline_data) > 0 /\ ~ProcessRaises(kline_data)

\* C14: in a batch run a failure confined to one instrument (malformed
\* fields, an unparseable timestamp, an empty series, a failed retrieval)
\* never aborts the run: the call returns, and the result holds the report
\* of every other instrument that was computable.
C14_FailureNeverAborts ==
    Analyzed =>
        /\ raised = "none"
        /\ args.data_file = "found" =>
              \A i \in 1 .. Len(args.all_data) :
                  Computable(args.all_data[i].value) => args.all_data[i].key \in Keys(result)
        /\ IdsRun => WithData(args) \subseteq Keys(result)

IsMarker(x) == x = PyNone \/ IsNaN(x)

\* The fewest candles from which ADX(14) can be defined: 14 values of DX,
\* the first of them at position 13.
AdxWarmup == 2 * Dmi14 - 1

UpMove(rows, i) ==
    IF Iloc(rows, i).high > Iloc(rows, i - 1).high
    THEN Iloc(rows, i).high - Iloc(rows, i - 1).high ELSE 0
DownMove(rows, i) ==
    IF Iloc(rows, i - 1).low > Iloc(rows, i).low
    THEN Iloc(rows, i - 1).low - Iloc(rows, i).low ELSE 0

\* C24: in calculate_dmi a directional move counts at a position only if it
\* strictly exceeds the opposite move: where the non-negative +DM and -DM
\* are equal both are zero before smoothing, and where they differ only the
\* strictly larger one is kept.
C24_StrictTieBreak ==
    Returned("calculate_dmi") =>
        \A i \in 1 .. Len(data) - 1 :
            LET up == UpMove(data, i)
                down == DownMove(data, i)
                plus_dm == At(PlusDM(data), i)
                minus_dm == At(MinusDM(data), i)
            IN  /\ up = down => plus_dm = Num(0) /\ minus_dm = Num(0)
                /\ up > down => plus_dm = Num(up) /\ minus_dm = Num(0)
                /\ up < down => plus_dm = Num(0) /\ minus_dm = Num(down)

\* -------------------------------------------------------------------- KDJ

\* The trailing n candles ending at position i (1-based) have one price for
\* every high and every low: RSV divides by zero there.
ZeroRangeAt(rows, i, n) ==
    /\ i >= n
    /\ \A a \in (i - n + 1) .. i : \A b \in (i - n + 1) .. i :
           Cell(rows[a], "high") = Cell(rows[b], "low")

\* C25: calculate_kdj(n, m1, m2) does not raise, and at every position
\* where the highest high and the lowest low of the trailing n candles are
\* equal K, D and J are missing instead of carrying a number.
C25_ZeroRangeMissing ==
    (op = "calculate_kdj" /\ columns) =>
        /\ raised = "none"
        /\ \A i \in 1 .. Len(data) :
               ZeroRangeAt(data, i, args.n) =>
                   /\ IsNaN(result.k[i])
                   /\ IsNaN(result.d[i])
                   /\ IsNaN(result.j[i])

\* -------------------------------------------------------------------- ATR

Max2(a, b) == IF a >= b THEN a ELSE b

\* The true range of position i (1-based) as the claim states it.
TrueRangeAt(rows, i) ==
    IF i = 1 THEN rows[1].high - rows[1].low
    ELSE Max2(Max2(rows[i].high - rows[i].low,
                   Abs(rows[i].high - rows[i - 1].close)),
              Abs(rows[i].low - rows[i - 1].close))

RECURSIVE TrueRangeSum(_, _, _)
TrueRangeSum(rows, lo, hi) ==
    IF lo > hi THEN 0 ELSE TrueRangeAt(rows, hi) + TrueRangeSum(rows, lo, hi - 1)

\* C26: the true range of position 0 is high[0] - low[0] and of a later
\* position the largest of high-low, |high - previous close| and
\* |low - previous close|; calculate_atr(p) is missing at positions 0..p-2
\* and from position p-1 on is the mean of the true range over the trailing
\* p positions.
C26_AtrIsMeanTrueRange ==
    (op = "calculate_atr" /\ columns) =>
        /\ raised = "none"
        /\ Len(result) = Len(data)
        /\ \A i \in 1 .. Len(data) :
               /\ At(TrueRange(data), i - 1) = Num(TrueRangeAt(data, i))
               /\ i < args.period => IsNaN(result[i])
               /\ i >= args.period =>
                      result[i] = Norm(TrueRangeSum(data, i - args.period + 1, i), args.period)

\* calculate_atr(2) on three candles, the second gapping above the first
\* close: missing at position 0, (1 + 1) / 2 at position 1.
C26_Witness ==
    /\ op = "calculate_atr" /\ raised = "none" /\ args.period = 2
    /\ Len(data) = 3
    /\ data[1].high = 2 /\ data[1].low = 1 /\ data[1].close = 1
    /\ data[2].high = 2 /\ data[2].low = 2
    /\ IsNaN(result[1])
    /\ result[2] = Num(1)
    /\ ~IsNaN(result[3])

\* ------------------------------------------------------------- MCP server

KnownMethods == {"initialize", "notifications/initialized", "tools/list", "tools/call"}

\* A request naming an unknown operation, or a malformed request.
UnknownOperation(line) ==
    /\ line.json = "object"
    /\ \/ Get(line, "method") \notin KnownMethods
       \/ /\ Get(line, "method") = "tools/call"
          /\ "params" \in DOMAIN line => (IsObject(line.params) /\ line.params.name \notin Tools)
Malformed(line) == line.json # "object"
BadRequest(line) == UnknownOperation(line) \/ Malformed(line)

IsErrorObject(r) == "error" \in DOMAIN r /\ DOMAIN r.error = {"code", "message"}
LastWritten(out) == out[Len(out)]

\* C22: a bad request never ends the dispatch loop: for every request
\* naming an unknown operation and every malformed request main writes a
\* structured error object with code and message and goes on with the next
\* line; the loop exits only at end of input.
C22_BadRequestAnswered ==
    /\ [](pc = "exit" => stdin = <<>>)
    /\ [][(pc = "main" /\ stdin # <<>> /\ BadRequest(Head(stdin))) =>
              /\ pc' = "main"
              /\ stdin' = Tail(stdin)
              /\ Len(stdout') = Len(stdout) + 1
              /\ IsErrorObject(LastWritten(stdout'))]_vars

\* The id of the request on a line: null when the line carries none.
RequestIdOf(line) == IF line.json = "object" THEN Get(line, "id") ELSE JsonNull

\* C23: every response main writes, result or error, carries the id of the
\* request that caused it.
C23_EchoesRequestId ==
    [][Len(stdout') > Len(stdout) =>
           LastWritten(stdout').id = RequestIdOf(Head(stdin))]_vars

\* --------------------------------------------------- get_long_short_ratio

\* A table of at most 'limit' rows in descending order of time.
IsNewestFirst(table, limit) ==
    /\ Len(table) <= limit
    /\ \A i \in 1 .. Len(table) - 1 : table[i].datetime >= table[i + 1].datetime

\* Each turn of the loop collects at least one more record or leaves the
\* loop, and the loop is left as soon as 'limit' records are collected.
LoopProgress ==
    /\ [][(pc = "while" /\ pc' = "while") => Len(all_records') > Len(all_records)]_vars
    /\ []((pc = "while" /\ Len(all_records) > 0) => Len(all_records) < args.limit)

====
